---- MODULE Spec2Model ----
(***************************************************************************)
(* CoarseDropout (albumentations/augmentations/dropout/coarse_dropout.py): *)
(* configuration normalisation and validation, the hole sampler and the    *)
(* application of a hole set to a mask and to keypoints.                    *)
(*                                                                         *)
(* A Python scalar (ScalarType = int | float, or None) is a record         *)
(* [t, n]: t is "none", "int" or "float"; an int has value n, a float has  *)
(* value n / Den.  Ranges are pairs <<low, high>> of scalars.              *)
(***************************************************************************)
EXTENDS Integers, Sequences, FiniteSets, TLC

\* ---------------------------------------------------------------- bounds
\* floats are the multiples of 1/Den
Den == 2
\* largest integer hole size / legacy size a configuration names
MaxSize == 2
\* a configuration names floats up to 1 + MaxFloatOver / Den
MaxFloatOver == 1
\* largest hole count a configuration names (besides the default)
MaxHoles == 2
\* image height and width range over 1..MaxDim in the sampler
MaxDim == 2
\* buffer height / width and hole-set / keypoint-list lengths in the applicator
ApplyHeight == 1
ApplyWidth == 1
MaxApplyHoles == 1
MaxKeypoints == 2

\* --------------------------------------------------------------- scalars
None == [t |-> "none", n |-> 0]
IntVal(k) == [t |-> "int", n |-> k]
FloatVal(k) == [t |-> "float", n |-> k]

\* isinstance(x, int) / isinstance(x, float)
IsInt(x) == x.t = "int"
IsFloat(x) == x.t = "float"

\* the numeric value of a scalar, scaled by Den (Python compares int and
\* float by value)
Num(x) == IF x.t = "int" THEN x.n * Den ELSE x.n

\* Python truthiness of an Optional[ScalarType]: None, 0 and 0.0 are falsy
Truthy(x) == x.t # "none" /\ x.n # 0

Min(a, b) == IF a <= b THEN a ELSE b

\* the default of max_holes, max_height, max_width and of the size ranges
DefaultMax == 8
\* the default num_holes_range
DefaultNumHoles == 1

DefaultNumHolesRange == <<IntVal(DefaultNumHoles), IntVal(DefaultNumHoles)>>
DefaultSizeRange == <<IntVal(DefaultMax), IntVal(DefaultMax)>>

VARIABLES
    pc,                 \* position of the modelled call
    min_holes, max_holes, num_holes_range,
    min_height, max_height, hole_height_range,
    min_width, max_width, hole_width_range,
    supplied,           \* the three ranges as the caller passed them
    mask_fill_value,    \* the field, and the argument apply_to_mask receives
    height, width,      \* img.shape[:2]
    num_holes, hole_height, hole_width, y1, x1,
    holes,              \* the list built by get_params_dependent_on_targets
    draws,              \* the calls made to random_utils, in order
    mask, keypoints,    \* inputs of the applicator
    out_mask, out_keypoints

cfgvars == <<min_holes, max_holes, num_holes_range, min_height, max_height,
             hole_height_range, min_width, max_width, hole_width_range,
             supplied, mask_fill_value>>
imgvars == <<height, width>>
samplevars == <<num_holes, hole_height, hole_width, y1, x1, holes, draws>>
applyvars == <<mask, keypoints, out_mask, out_keypoints>>
vars == <<pc, cfgvars, imgvars, samplevars, applyvars>>

\* ------------------------------------------------- InitSchema validation
\* update_range(min_value, max_value, default_range)
update_range(min_value, max_value, default_range) ==
    IF max_value # None
    THEN <<IF Truthy(min_value) THEN min_value ELSE max_value, max_value>>
    ELSE default_range

\* validate_range without the check of line 126
validate_range_unchecked_float(range_value, minimum) ==
    /\ minimum * Den <= Num(range_value[1])
    /\ Num(range_value[1]) <= Num(range_value[2])

\* validate_range(range_value, range_name, minimum): TRUE when it returns,
\* FALSE when it raises ValueError
validate_range(range_value, minimum) ==
    /\ minimum * Den <= Num(range_value[1])
    /\ Num(range_value[1]) <= Num(range_value[2])
    /\ ~ (/\ IsFloat(range_value[1])
          /\ ~ \A k \in 1..2 : 0 <= Num(range_value[k]) /\ Num(range_value[k]) <= Den)

\* the @model_validator: both helpers applied to the three dimensions
check_holes_and_dimensions ==
    /\ pc = "init"
    /\ LET nh == update_range(min_holes, max_holes, num_holes_range)
           hh == update_range(min_height, max_height, hole_height_range)
           hw == update_range(min_width, max_width, hole_width_range)
       IN /\ num_holes_range' = nh
          /\ hole_height_range' = hh
          /\ hole_width_range' = hw
          /\ pc' = IF /\ validate_range(nh, 1)
                      /\ validate_range(hh, 0)
                      /\ validate_range(hw, 0)
                   THEN "ready" ELSE "rejected"
    /\ UNCHANGED <<min_holes, max_holes, min_height, max_height, min_width,
                   max_width, supplied, mask_fill_value>>
    /\ UNCHANGED <<imgvars, samplevars, applyvars>>

\* --------------------------------------------------- configuration inputs
\* what the pydantic field types admit: the legacy fields are Optional and
\* ge=0, the size ranges are any pair of scalars, num_holes_range is a
\* non-decreasing pair of integers >= 1
LegacyCounts == {IntVal(k) : k \in 0..MaxHoles}
LegacySizes == {IntVal(k) : k \in 0..MaxSize} \cup
               {FloatVal(k) : k \in 0..(Den + MaxFloatOver)}
RangeScalars == {IntVal(k) : k \in -1..MaxSize} \cup
                {FloatVal(k) : k \in -1..(Den + MaxFloatOver)}
CountRanges == {r \in {<<IntVal(a), IntVal(b)>> : a, b \in 1..MaxHoles} :
                   r[1].n <= r[2].n}
SizeRanges == (RangeScalars \X RangeScalars) \cup {DefaultSizeRange}

\* <<min_X, max_X, X_range>> as the caller may pass them; the Small sets
\* hold the all-default triple and triples without legacy fields
HolesFull == ({None} \cup LegacyCounts) \X ({None, IntVal(DefaultMax)} \cup LegacyCounts)
             \X (CountRanges \cup {DefaultNumHolesRange})
HolesSmall == {<<None, IntVal(DefaultMax), DefaultNumHolesRange>>,
               <<None, None, DefaultNumHolesRange>>}
SizeFull == ({None} \cup LegacySizes) \X ({None, IntVal(DefaultMax)} \cup LegacySizes)
            \X SizeRanges
SizeSmall == {<<None, IntVal(DefaultMax), DefaultSizeRange>>,
              <<None, None, <<IntVal(1), IntVal(1)>>>>,
              <<None, None, <<FloatVal(Den), FloatVal(Den)>>>>}

\* one dimension ranges over its full set while the other two range over
\* their small sets
Configurations ==
    (HolesFull \X SizeSmall \X SizeSmall) \cup
    (HolesSmall \X SizeFull \X SizeSmall) \cup
    (HolesSmall \X SizeSmall \X SizeFull)

NoSample ==
    /\ num_holes = 0 /\ hole_height = 0 /\ hole_width = 0 /\ y1 = 0 /\ x1 = 0
    /\ holes = <<>> /\ draws = <<>>
NoImage == height = 0 /\ width = 0
NoApply ==
    /\ mask = <<>> /\ keypoints = <<>> /\ out_mask = <<>> /\ out_keypoints = <<>>

\* the arguments of CoarseDropout(...) as InitSchema receives them
InitConfig ==
    /\ pc = "init"
    /\ \E c \in Configurations :
        /\ min_holes = c[1][1] /\ max_holes = c[1][2] /\ num_holes_range = c[1][3]
        /\ min_height = c[2][1] /\ max_height = c[2][2] /\ hole_height_range = c[2][3]
        /\ min_width = c[3][1] /\ max_width = c[3][2] /\ hole_width_range = c[3][3]
        /\ supplied = <<c[1][3], c[2][3], c[3][3]>>
    /\ mask_fill_value = None
    /\ NoImage /\ NoSample /\ NoApply

NextConfig == check_holes_and_dimensions

SpecConfig == InitConfig /\ [][NextConfig]_vars

\* ------------------------------------------------------------ random_utils
\* int(x) of a value scaled by Den
Trunc(a) == IF a >= 0 THEN a \div Den ELSE -((-a) \div Den)

\* random_utils.randint(low, high): the integers of [low, high); the
\* arguments arrive scaled by Den
randint(low, high) == {v \in Trunc(low)..(Trunc(high) - 1) : TRUE}

\* randint raises on an empty interval; with a bound that is not an integer
\* the outcome depends on the numpy build (it truncates or it raises)
randint_raises(low, high) ==
    \/ Trunc(low) >= Trunc(high)
    \/ low % Den # 0
    \/ high % Den # 0

\* int(dimension * random_utils.uniform(low, high)): uniform yields every
\* real of [low, high], so the product truncates to every integer between
\* the truncated ends
int_uniform(dimension, low, high) ==
    ((dimension * Num(low)) \div Den)..((dimension * Num(high)) \div Den)

\* one call to random_utils as recorded in draws; val is -1 when it raised
Drawn(kind, val) == [kind |-> kind, val |-> val]

\* ------------------------------------------------------------ hole sampler
\* calculate_hole_dimensions dispatches on the type of height_range[0]
IntBranch == IsInt(hole_height_range[1])

\* the arguments of the randint call of line 196 / 197
size_randint_low(range_value) == Num(range_value[1])
size_randint_high(range_value, dimension) ==
    Min(Num(range_value[2]), dimension * Den) + Den

\* the exclusive upper end one past num_holes_range[1]
num_holes_randint_high_off == Num(num_holes_range[2]) + 2 * Den

\* the exclusive upper end of the hole count draw, num_holes_range[1] + 1
num_holes_randint_high == Num(num_holes_range[2]) + Den

\* the corner draw without the hole size subtracted
corner_randint_high_unclamped(dimension, hole_size) == (dimension + 1) * Den

\* the exclusive upper end of a corner draw, dimension - hole_size + 1
corner_randint_high(dimension, hole_size) == (dimension - hole_size + 1) * Den

\* get_params_dependent_on_targets, lines 205-209: read the image shape,
\* start the list, draw the hole count
draw_num_holes ==
    /\ pc = "ready"
    /\ \E h, w \in 1..MaxDim : height' = h /\ width' = w
    /\ holes' = <<>>
    /\ \E v \in randint(Num(num_holes_range[1]), num_holes_randint_high) :
        /\ num_holes' = v
        /\ draws' = <<Drawn("num_holes", v)>>
    /\ pc' = "loop"
    /\ UNCHANGED <<cfgvars, hole_height, hole_width, y1, x1, applyvars>>

\* one more iteration of "for _ in range(num_holes)": the hole height
draw_hole_height ==
    /\ pc = "loop"
    /\ Len(holes) < num_holes
    /\ IF IntBranch
       THEN LET low == size_randint_low(hole_height_range)
                high == size_randint_high(hole_height_range, height)
            IN \/ /\ randint_raises(low, high)
                  /\ pc' = "error"
                  /\ draws' = Append(draws, Drawn("hole_height", -1))
                  /\ UNCHANGED hole_height
               \/ \E v \in randint(low, high) :
                  /\ hole_height' = v
                  /\ draws' = Append(draws, Drawn("hole_height", v))
                  /\ pc' = "width"
       ELSE \E v \in int_uniform(height, hole_height_range[1], hole_height_range[2]) :
                  /\ hole_height' = v
                  /\ draws' = Append(draws, Drawn("hole_height", v))
                  /\ pc' = "width"
    /\ UNCHANGED <<cfgvars, imgvars, num_holes, hole_width, y1, x1, holes, applyvars>>

\* the hole width, in the branch the height range selected
draw_hole_width ==
    /\ pc = "width"
    /\ IF IntBranch
       THEN LET low == size_randint_low(hole_width_range)
                high == size_randint_high(hole_width_range, width)
            IN \/ /\ randint_raises(low, high)
                  /\ pc' = "error"
                  /\ draws' = Append(draws, Drawn("hole_width", -1))
                  /\ UNCHANGED hole_width
               \/ \E v \in randint(low, high) :
                  /\ hole_width' = v
                  /\ draws' = Append(draws, Drawn("hole_width", v))
                  /\ pc' = "y1"
       ELSE \E v \in int_uniform(width, hole_width_range[1], hole_width_range[2]) :
                  /\ hole_width' = v
                  /\ draws' = Append(draws, Drawn("hole_width", v))
                  /\ pc' = "y1"
    /\ UNCHANGED <<cfgvars, imgvars, num_holes, hole_height, y1, x1, holes, applyvars>>

\* y1 = random_utils.randint(0, height - hole_height + 1)
draw_y1 ==
    /\ pc = "y1"
    /\ LET high == corner_randint_high(height, hole_height)
       IN IF randint_raises(0, high)
          THEN /\ pc' = "error"
               /\ draws' = Append(draws, Drawn("y1", -1))
               /\ UNCHANGED y1
          ELSE \E v \in randint(0, high) :
               /\ y1' = v
               /\ draws' = Append(draws, Drawn("y1", v))
               /\ pc' = "x1"
    /\ UNCHANGED <<cfgvars, imgvars, num_holes, hole_height, hole_width, x1, holes, applyvars>>

\* the hole with its coordinates exchanged
new_hole_swapped(x, y) == <<y, x, y + hole_height, x + hole_width>>

\* the hole (x1, y1, x2, y2) of lines 221-223
new_hole(x, y) == <<x, y, x + hole_width, y + hole_height>>

\* x1 = random_utils.randint(0, width - hole_width + 1), then the append
draw_x1 ==
    /\ pc = "x1"
    /\ LET high == corner_randint_high(width, hole_width)
       IN IF randint_raises(0, high)
          THEN /\ pc' = "error"
               /\ draws' = Append(draws, Drawn("x1", -1))
               /\ UNCHANGED <<x1, holes>>
          ELSE \E v \in randint(0, high) :
               /\ x1' = v
               /\ draws' = Append(draws, Drawn("x1", v))
               /\ holes' = Append(holes, new_hole(v, y1))
               /\ pc' = "loop"
    /\ UNCHANGED <<cfgvars, imgvars, num_holes, hole_height, hole_width, y1, applyvars>>

\* return {"holes": holes}
return_holes ==
    /\ pc = "loop"
    /\ Len(holes) >= num_holes
    /\ pc' = "done"
    /\ UNCHANGED <<cfgvars, imgvars, samplevars, applyvars>>

\* the ranges a constructed transform holds: those validate_range accepts
HeldSizeRanges == {r \in LegacySizes \X LegacySizes : validate_range(r, 0)}
HeldCountRanges == {r \in CountRanges : validate_range(r, 1)}

\* an integer range and a range of fractions
SampleRanges == {<<IntVal(1), IntVal(2)>>, <<FloatVal(1), FloatVal(1)>>}

\* <<num_holes_range, hole_height_range, hole_width_range>> of the
\* transforms explored: every count range with the sample size ranges, and
\* the default count range (one hole) with every pair of size ranges
HeldConfigurations ==
    (HeldCountRanges \X SampleRanges \X SampleRanges) \cup
    ({DefaultNumHolesRange} \X HeldSizeRanges \X HeldSizeRanges)

\* a transform constructed from ranges alone (legacy fields None)
Init ==
    /\ pc = "ready"
    /\ min_holes = None /\ max_holes = None
    /\ min_height = None /\ max_height = None
    /\ min_width = None /\ max_width = None
    /\ \E c \in HeldConfigurations :
        /\ num_holes_range = c[1]
        /\ hole_height_range = c[2]
        /\ hole_width_range = c[3]
    /\ supplied = <<num_holes_range, hole_height_range, hole_width_range>>
    /\ mask_fill_value = None
    /\ NoImage /\ NoSample /\ NoApply

Next ==
    \/ draw_num_holes
    \/ draw_hole_height
    \/ draw_hole_width
    \/ draw_y1
    \/ draw_x1
    \/ return_holes

Spec == Init /\ [][Next]_vars

\* -------------------------------------------------------------- applicator
\* functional.keypoint_in_hole(keypoint, hole): the half-open containment
\* test on the keypoint's (x, y)
keypoint_in_hole(keypoint, hole) ==
    /\ hole[1] <= keypoint[1] /\ keypoint[1] < hole[3]
    /\ hole[2] <= keypoint[2] /\ keypoint[2] < hole[4]

\* functional.cutout(img, holes, fill_value) with a constant fill: every
\* element of img[y1:y2, x1:x2] of every hole becomes fill_value; row y and
\* column x of the buffer are img[y + 1][x + 1]
cutout(img, hole_list, fill_value) ==
    [r \in 1..Len(img) |->
        [c \in 1..Len(img[r]) |->
            IF \E k \in 1..Len(hole_list) :
                  /\ hole_list[k][1] <= c - 1 /\ c - 1 < hole_list[k][3]
                  /\ hole_list[k][2] <= r - 1 /\ r - 1 < hole_list[k][4]
            THEN fill_value
            ELSE img[r][c]]]

\* apply_to_mask without the test of line 176
masked_always(m, fill, hole_list) == cutout(m, hole_list, fill.n)

\* apply_to_mask's result
masked(m, fill, hole_list) ==
    IF fill = None THEN m ELSE cutout(m, hole_list, fill.n)

\* apply_to_keypoints with all() in place of any()
kept_keypoints_all(kps, hole_list) ==
    SelectSeq(kps, LAMBDA keypoint :
        ~ \A k \in 1..Len(hole_list) : keypoint_in_hole(keypoint, hole_list[k]))

\* apply_to_keypoints' result
kept_keypoints(kps, hole_list) ==
    SelectSeq(kps, LAMBDA keypoint :
        ~ \E k \in 1..Len(hole_list) : keypoint_in_hole(keypoint, hole_list[k]))

apply_to_mask ==
    /\ pc = "params"
    /\ \E m \in [1..height -> [1..width -> 0..1]], fill \in {None, IntVal(0), IntVal(1)} :
        /\ mask' = m
        /\ mask_fill_value' = fill
        /\ out_mask' = masked(m, fill, holes)
    /\ pc' = "mask"
    /\ UNCHANGED <<min_holes, max_holes, num_holes_range, min_height, max_height,
                   hole_height_range, min_width, max_width, hole_width_range,
                   supplied>>
    /\ UNCHANGED <<imgvars, samplevars, keypoints, out_keypoints>>

\* sequences over S of length at most n
SeqUpTo(S, n) == UNION {[1..k -> S] : k \in 0..n}

apply_to_keypoints ==
    /\ pc = "params"
    /\ \E kps \in SeqUpTo((0..width) \X (0..height), MaxKeypoints) :
        /\ keypoints' = kps
        /\ out_keypoints' = kept_keypoints(kps, holes)
    /\ pc' = "keypoints"
    /\ UNCHANGED <<cfgvars, imgvars, samplevars, mask, out_mask>>

\* the holes that fit a height x width buffer
FittingHoles(h, w) ==
    {b \in (0..w) \X (0..h) \X (0..w) \X (0..h) : b[1] <= b[3] /\ b[2] <= b[4]}

\* the params of one invocation: a hole set the sampler returned for a
\* buffer of ApplyHeight x ApplyWidth
InitApply ==
    /\ pc = "params"
    /\ min_holes = None /\ max_holes = None
    /\ min_height = None /\ max_height = None
    /\ min_width = None /\ max_width = None
    /\ num_holes_range = <<IntVal(1), IntVal(MaxApplyHoles)>>
    /\ hole_height_range = <<IntVal(0), IntVal(ApplyHeight)>>
    /\ hole_width_range = <<IntVal(0), IntVal(ApplyWidth)>>
    /\ supplied = <<num_holes_range, hole_height_range, hole_width_range>>
    /\ mask_fill_value = None
    /\ height = ApplyHeight /\ width = ApplyWidth
    /\ holes \in SeqUpTo(FittingHoles(ApplyHeight, ApplyWidth), MaxApplyHoles)
    /\ num_holes = Len(holes)
    /\ hole_height = 0 /\ hole_width = 0 /\ y1 = 0 /\ x1 = 0 /\ draws = <<>>
    /\ NoApply

NextApply ==
    \/ apply_to_mask
    \/ apply_to_keypoints

SpecApply == InitApply /\ [][NextApply]_vars

\* ================================================================= claims
\* ---- configuration (SpecConfig)
HeldRanges == <<num_holes_range, hole_height_range, hole_width_range>>

\* a range construction must refuse: low > high, low below its minimum, or
\* a range of fractions (its first value a float) with a value outside [0,1]
Refusable(r, minimum) ==
    \/ Num(r[1]) > Num(r[2])
    \/ Num(r[1]) < minimum * Den
    \/ /\ IsFloat(r[1])
       /\ \E k \in 1..2 : Num(r[k]) < 0 \/ Num(r[k]) > Den

\* C5: construction fails whenever a resulting range has low > high, a
\* fraction-typed size range has a value outside [0,1], or num_holes_range
\* has low < 1 (size ranges: low < 0); so every configuration that passes
\* has 1 <= low <= high holes and size ranges with 0 <= low <= high and,
\* if fractional, both bounds in [0,1].
C5_InvalidRangesRejected ==
    pc # "init" =>
        ((\/ Refusable(num_holes_range, 1)
          \/ Refusable(hole_height_range, 0)
          \/ Refusable(hole_width_range, 0)) => pc = "rejected")

\* C5 witness: a height range of fractions, ordered and non-negative, that
\* is refused only because its upper bound exceeds 1
C5_Witness ==
    /\ pc = "rejected"
    /\ IsFloat(hole_height_range[1]) /\ IsFloat(hole_height_range[2])
    /\ 0 <= Num(hole_height_range[1])
    /\ Num(hole_height_range[1]) <= Num(hole_height_range[2])
    /\ Num(hole_height_range[2]) > Den
    /\ ~ Refusable(num_holes_range, 1)
    /\ ~ Refusable(hole_width_range, 0)

LegacyAtDefault ==
    /\ min_holes = None /\ max_holes = IntVal(DefaultMax)
    /\ min_height = None /\ max_height = IntVal(DefaultMax)
    /\ min_width = None /\ max_width = IntVal(DefaultMax)

\* C6: with every legacy field at its default, the ranges held after
\* check_holes_and_dimensions are the ranges the caller supplied.
C6_SuppliedRangesHeld ==
    (pc # "init" /\ LegacyAtDefault) => HeldRanges = supplied

Translated(min_value, max_value, held) ==
    /\ (min_value # None /\ max_value # None) => held = <<min_value, max_value>>
    /\ (min_value = None /\ max_value # None) => held = <<max_value, max_value>>

\* C7: a legacy pair (min_X, max_X) with both values present becomes the
\* range (min_X, max_X), min_X = 0 included; max_X alone becomes
\* (max_X, max_X).
C7_LegacyPairTranslated ==
    pc # "init" =>
        /\ Translated(min_holes, max_holes, num_holes_range)
        /\ Translated(min_height, max_height, hole_height_range)
        /\ Translated(min_width, max_width, hole_width_range)

\* ---- hole sampler (Spec)
\* the draws of the k-th loop iteration are draws[4k - 2 .. 4k + 1]
IterationDraw(k, j) == draws[4 * (k - 1) + 1 + j]

\* C1: every hole lies inside the image, 0 <= x1 <= x2 <= width and
\* 0 <= y1 <= y2 <= height, and x1 = x2 (y1 = y2) only when the hole
\* width (height) sampled for it is 0.
C1_HolesInsideImage ==
    \A k \in 1..Len(holes) :
        /\ 0 <= holes[k][1] /\ holes[k][1] <= holes[k][3] /\ holes[k][3] <= width
        /\ 0 <= holes[k][2] /\ holes[k][2] <= holes[k][4] /\ holes[k][4] <= height
        /\ holes[k][1] = holes[k][3] => IterationDraw(k, 2).val = 0
        /\ holes[k][2] = holes[k][4] => IterationDraw(k, 1).val = 0

\* C1 witness: a returned hole of width 0 that ends on the bottom edge
\* without starting on the top edge
C1_Witness ==
    /\ pc = "done"
    /\ \E k \in 1..Len(holes) :
        /\ holes[k][1] = holes[k][3]
        /\ 0 < holes[k][2] /\ holes[k][2] < holes[k][4] /\ holes[k][4] = height

\* C2: the returned list has num_holes_range[0] <= n <= num_holes_range[1]
\* entries, one per loop iteration in generation order: the k-th entry is
\* the hole placed by the k-th corner draw, and none is dropped.
C2_HoleCountInRange ==
    /\ Len(holes) = Cardinality({j \in DOMAIN draws :
                                    draws[j].kind = "x1" /\ draws[j].val >= 0})
    /\ \A k \in 1..Len(holes) : holes[k][1] = IterationDraw(k, 4).val
    /\ pc \in {"loop", "done"} => Len(draws) = 1 + 4 * Len(holes)
    /\ pc = "done" =>
        /\ Len(holes) = num_holes
        /\ num_holes_range[1].n <= Len(holes)
        /\ Len(holes) <= num_holes_range[2].n

\* C2 witness: the range (1, 2) returns two holes, the second equal to
\* the first
C2_Witness ==
    /\ pc = "done"
    /\ num_holes_range[1].n < num_holes_range[2].n
    /\ Len(holes) = num_holes_range[2].n
    /\ Len(holes) >= 2
    /\ holes[1] = holes[2]

\* C8: every draw made while sampling a hole has a non-empty interval:
\* low <= min(high, image dimension) for a size draw, 0 <= height -
\* hole_height and 0 <= width - hole_width for the corner draws; sampling
\* never fails.
C8_DrawIntervalsNonEmpty ==
    /\ pc # "error"
    /\ (pc = "loop" /\ Len(holes) < num_holes /\ IntBranch) =>
        Num(hole_height_range[1]) <= Min(Num(hole_height_range[2]), height * Den)
    /\ (pc = "width" /\ IntBranch) =>
        Num(hole_width_range[1]) <= Min(Num(hole_width_range[2]), width * Den)
    /\ pc = "y1" => 0 <= height - hole_height
    /\ pc = "x1" => 0 <= width - hole_width

DrawKindAt(j, order) == IF j = 1 THEN "num_holes" ELSE order[((j - 2) % 4) + 1]

\* C9: the random source is consumed in the order hole count, then per
\* hole height, width, x1, y1, holes in generation order.
C9_DrawOrderXBeforeY ==
    \A j \in DOMAIN draws :
        draws[j].kind = DrawKindAt(j, <<"hole_height", "hole_width", "x1", "y1">>)

\* C9 as amended: the order is hole count, then per hole height, width,
\* y1, x1, holes in generation order; the list is a function of the
\* values drawn: its k-th hole is (x, y, x + w, y + h) of the k-th group of
\* four draws, and the first draw is its length.
C9_DrawOrderYBeforeX ==
    /\ \A j \in DOMAIN draws :
        draws[j].kind = DrawKindAt(j, <<"hole_height", "hole_width", "y1", "x1">>)
    /\ \A k \in 1..Len(holes) :
        holes[k] = <<IterationDraw(k, 4).val,
                     IterationDraw(k, 3).val,
                     IterationDraw(k, 4).val + IterationDraw(k, 2).val,
                     IterationDraw(k, 3).val + IterationDraw(k, 1).val>>
    /\ pc = "done" => (draws[1].val = Len(holes) /\ Len(draws) = 1 + 4 * Len(holes))

\* C9 witness: two holes returned after nine draws, the second hole
\* differing from the first in both corner coordinates and both sizes
C9_Witness ==
    /\ pc = "done"
    /\ Len(holes) = 2
    /\ Len(draws) = 9
    /\ holes[1][1] # holes[2][1]
    /\ holes[1][2] # holes[2][2]
    /\ IterationDraw(1, 1).val # IterationDraw(2, 1).val
    /\ IterationDraw(1, 2).val # IterationDraw(2, 2).val

\* the sizes a range yields by its own type on an image dimension
OwnTypeSizes(r, dimension) ==
    IF IsInt(r[1])
    THEN {v \in 0..dimension : Num(r[1]) <= v * Den /\ v * Den <= Num(r[2])}
    ELSE {v \in 0..dimension : (dimension * Num(r[1])) \div Den <= v
                               /\ v <= (dimension * Num(r[2])) \div Den}

\* C10: the hole height comes from hole_height_range and the hole width
\* from hole_width_range, each by that range's own type: an integer range
\* gives a value of [low, min(high, dimension)], a fractional range gives
\* floor(dimension * f) for an f of [low, high].
C10_SizeByOwnRangeType ==
    /\ pc \in {"width", "y1", "x1"} => hole_height \in OwnTypeSizes(hole_height_range, height)
    /\ pc \in {"y1", "x1"} => hole_width \in OwnTypeSizes(hole_width_range, width)

\* ---- applicator (SpecApply)
\* a buffer element lies in a hole of the set
InSomeHole(px, py) ==
    \E k \in 1..Len(holes) :
        /\ holes[k][1] <= px /\ px < holes[k][3]
        /\ holes[k][2] <= py /\ py < holes[k][4]

\* C3: with mask_fill_value None, apply_to_mask returns the input mask
\* unchanged for every hole set, also one whose holes cover mask elements.
C3_NullFillLeavesMask ==
    (pc = "mask" /\ mask_fill_value = None) =>
        \A r \in 1..height : \A c \in 1..width : out_mask[r][c] = mask[r][c]

\* C3 witness: mask_fill_value None, and a hole covering a mask element
\* that differs from the default fill 0
C3_Witness ==
    /\ pc = "mask"
    /\ mask_fill_value = None
    /\ \E r \in 1..height : \E c \in 1..width :
        InSomeHole(c - 1, r - 1) /\ mask[r][c] = 1

\* the input positions of the keypoints that lie in no hole
Outside == {j \in 1..Len(keypoints) : ~ InSomeHole(keypoints[j][1], keypoints[j][2])}

====
